---------------------------- MODULE Spec2Model ----------------------------
(***************************************************************************)
(* Model of wine_app.py: the two-stage request pipeline of the wine        *)
(* quality assistant (payload -> Azure ML prediction -> response           *)
(* interpretation -> OpenAI tasting note -> Streamlit messages).           *)
(*                                                                         *)
(* Conventions                                                             *)
(*  - A decoded JSON / Python value is a record [t, n, s, keys, items]:    *)
(*    t is the Python type, n the number (floats are kept in tenths, so    *)
(*    7.5 is n = 75), s the text of a str, keys/items the content of a     *)
(*    dict or a list.  Python None and JSON null are the same value.       *)
(*  - Message texts are the texts of the source.  The emoji that open      *)
(*    some of them are written in ASCII: "[x] " for the cross mark,        *)
(*    "[!] " for the warning sign, "[ok] " for the check mark, "[in] "     *)
(*    for the test tube and "[wine] " for the wine glass.                  *)
(***************************************************************************)
EXTENDS Integers, Sequences, FiniteSets, TLC

(***************************************************************************)
(* Bounds of the model.                                                    *)
(***************************************************************************)
MaxRuns == 2       \* button presses (runs of display_results) explored
MaxLen == 2        \* longest generated message content, in characters

(***************************************************************************)
(* Python values.                                                          *)
(***************************************************************************)
JNull == [t |-> "null", n |-> 0, s |-> "", keys |-> <<>>, items |-> <<>>]
JBool(b) == [t |-> "bool", n |-> IF b THEN 1 ELSE 0, s |-> "", keys |-> <<>>, items |-> <<>>]
JInt(i) == [t |-> "int", n |-> i, s |-> "", keys |-> <<>>, items |-> <<>>]
JFloat(tenths) == [t |-> "float", n |-> tenths, s |-> "", keys |-> <<>>, items |-> <<>>]
JStr(str) == [t |-> "str", n |-> 0, s |-> str, keys |-> <<>>, items |-> <<>>]
JList(xs) == [t |-> "list", n |-> 0, s |-> "", keys |-> <<>>, items |-> xs]
JDict(ks, vs) == [t |-> "dict", n |-> 0, s |-> "", keys |-> ks, items |-> vs]

PyNone == JNull

\* an optional str (str | None)
NoStr == [none |-> TRUE, s |-> ""]
SomeStr(str) == [none |-> FALSE, s |-> str]
\* truth value of an optional str: None and "" are false
Truthy(o) == ~o.none /\ o.s # ""

\* isinstance(v, list)
IsList(v) == v.t = "list"

\* isinstance(v, float) where line 153 has isinstance(v, (int, float))
IsIntOrFloat_FloatOnly(v) == v.t = "float"

\* isinstance(v, (int, float)): bool is a subclass of int in Python
IsIntOrFloat(v) == v.t \in {"int", "float", "bool"}

\* float(v) for an int, bool or float, in tenths
PyFloat(v) == IF v.t = "float" THEN v.n ELSE v.n * 10

\* format(x, ".2f") and format(x, ".1f") of a float kept in tenths
Fmt2f(tenths) == ToString(tenths \div 10) \o "." \o ToString(tenths % 10) \o "0"
Fmt1f(tenths) == ToString(tenths \div 10) \o "." \o ToString(tenths % 10)

\* repr of a float kept in tenths
FloatRepr(tenths) == ToString(tenths \div 10) \o "." \o ToString(tenths % 10)

RECURSIVE PyRepr(_)
RECURSIVE ReprItems(_)
RECURSIVE ReprPairs(_, _)
\* repr(v)
PyRepr(v) ==
    CASE v.t = "null" -> "None"
      [] v.t = "bool" -> IF v.n = 1 THEN "True" ELSE "False"
      [] v.t = "int" -> ToString(v.n)
      [] v.t = "float" -> FloatRepr(v.n)
      [] v.t = "str" -> "'" \o v.s \o "'"
      [] v.t = "list" -> "[" \o ReprItems(v.items) \o "]"
      [] v.t = "dict" -> "{" \o ReprPairs(v.keys, v.items) \o "}"
ReprItems(xs) ==
    IF xs = <<>> THEN ""
    ELSE IF Len(xs) = 1 THEN PyRepr(xs[1])
    ELSE PyRepr(xs[1]) \o ", " \o ReprItems(Tail(xs))
ReprPairs(ks, vs) ==
    IF ks = <<>> THEN ""
    ELSE IF Len(ks) = 1 THEN "'" \o ks[1] \o "': " \o PyRepr(vs[1])
    ELSE "'" \o ks[1] \o "': " \o PyRepr(vs[1]) \o ", " \o ReprPairs(Tail(ks), Tail(vs))

\* an f-string field written with !r: repr(v)
PyStr_Repr(v) == PyRepr(v)

\* str(v), what an f-string field shows: a str is shown without quotes
PyStr(v) == IF v.t = "str" THEN v.s ELSE PyRepr(v)

RECURSIVE JsonDumps(_)
RECURSIVE DumpItems(_)
RECURSIVE DumpPairs(_, _)
\* json.dumps(v) with the default separators
JsonDumps(v) ==
    CASE v.t = "null" -> "null"
      [] v.t = "bool" -> IF v.n = 1 THEN "true" ELSE "false"
      [] v.t = "int" -> ToString(v.n)
      [] v.t = "float" -> FloatRepr(v.n)
      [] v.t = "str" -> "\"" \o v.s \o "\""
      [] v.t = "list" -> "[" \o DumpItems(v.items) \o "]"
      [] v.t = "dict" -> "{" \o DumpPairs(v.keys, v.items) \o "}"
DumpItems(xs) ==
    IF xs = <<>> THEN ""
    ELSE IF Len(xs) = 1 THEN JsonDumps(xs[1])
    ELSE JsonDumps(xs[1]) \o ", " \o DumpItems(Tail(xs))
DumpPairs(ks, vs) ==
    IF ks = <<>> THEN ""
    ELSE IF Len(ks) = 1 THEN "\"" \o ks[1] \o "\": " \o JsonDumps(vs[1])
    ELSE "\"" \o ks[1] \o "\": " \o JsonDumps(vs[1]) \o ", " \o DumpPairs(Tail(ks), Tail(vs))

\* d[k] of a dict
Get(d, k) == d.items[CHOOSE i \in 1..Len(d.keys) : d.keys[i] = k]

\* "".join(chars)
RECURSIVE Join(_)
Join(chars) == IF chars = <<>> THEN "" ELSE Head(chars) \o Join(Tail(chars))

\* str.strip() on a text kept as a sequence of characters
Whitespace == {" ", "\n", "\t"}
RECURSIVE LStrip(_)
LStrip(chars) ==
    IF chars = <<>> \/ Head(chars) \notin Whitespace THEN chars ELSE LStrip(Tail(chars))
RECURSIVE RStrip(_)
RStrip(chars) ==
    IF chars = <<>> \/ chars[Len(chars)] \notin Whitespace THEN chars
    ELSE RStrip(SubSeq(chars, 1, Len(chars) - 1))
\* str.lstrip() where line 126 has str.strip()
Strip_LeftOnly(chars) == LStrip(chars)
Strip(chars) == RStrip(LStrip(chars))

(***************************************************************************)
(* Configuration constants (wine_app.py lines 13-18).                      *)
(***************************************************************************)
AZURE_ML_COLUMNS ==
    << "fixed acidity", "volatile acidity", "citric acid", "residual sugar", "chlorides",
       "free sulfur dioxide", "total sulfur dioxide", "density", "pH", "sulphates", "alcohol",
       "color", "qual_bool" >>
OPENAI_MODEL_NAME == "gpt-4"

(***************************************************************************)
(* Message texts of the source.                                            *)
(***************************************************************************)
MsgMissingEnv == "[!] Missing required environment variables. Please set AZURE_ENDPOINT_URI, AZURE_API_KEY, and OPENAI_API_KEY."
MsgRawInput == "[in] Raw input data for Azure ML:"
MsgRawResponse == "[ok] Raw model response from Azure ML:"
MsgResultIsNone == "[x] Azure ML call did not return a valid result (prediction_result is None)."
MsgNotANumber == "[!] Prediction value from Azure ML is not a number: "
MsgEmptyList == "[!] Azure ML returned an empty list for prediction."
MsgUnexpected == "[!] Unexpected prediction result format from Azure ML: "
MsgScore == "Predicted Wine Quality Score: "
MsgCannotGenerate == "[!] Could not determine wine quality from Azure ML response. Cannot generate tasting notes."
\* the wording of the earlier revision of the script
MsgOpenAIError_GptFailed == "[!] GPT generation failed: "
MsgOpenAIError == "[!] OpenAI Error: "
MsgHeading == "### [wine] GPT-Generated Tasting Note"
MsgNoNote == "[!] GPT could not generate a tasting note (no specific error provided)."
MsgClientUnavailable == "OpenAI client not available. Check OPENAI_API_KEY."

(***************************************************************************)
(* The environment: configurations, form inputs, and the behaviours of    *)
(* the two external services.                                              *)
(***************************************************************************)
EnvPresent ==
    [AZURE_ENDPOINT_URI |-> SomeStr("https://mock-azure-endpoint.com"),
     AZURE_API_KEY |-> SomeStr("mock-azure-key"),
     OPENAI_API_KEY |-> SomeStr("mock-openai-key")]
EnvSamples ==
    { EnvPresent,
      [EnvPresent EXCEPT !.AZURE_ENDPOINT_URI = NoStr],
      [EnvPresent EXCEPT !.AZURE_API_KEY = SomeStr("")],
      [EnvPresent EXCEPT !.OPENAI_API_KEY = NoStr] }

\* the 13 widget values of lines 36-48, in the order of the widgets
WineSamples ==
    { << JFloat(74), JFloat(7), JFloat(0), JFloat(19), JFloat(1), JFloat(110), JFloat(340),
         JFloat(10), JFloat(33), JFloat(6), JFloat(100), JStr("red"), JBool(TRUE) >>,
      << JFloat(74), JFloat(7), JFloat(0), JFloat(19), JFloat(1), JFloat(110), JFloat(340),
         JFloat(10), JFloat(33), JFloat(6), JFloat(125), JStr("white"), JBool(FALSE) >> }

\* values a response body can decode to
JsonSamples ==
    { JList(<<JFloat(75)>>), JList(<<JInt(7)>>), JList(<<JFloat(62), JStr("x")>>),
      JList(<<>>),
      JList(<<JNull>>), JList(<<JStr("high")>>), JList(<<JBool(TRUE)>>),
      JList(<<JList(<<JFloat(75)>>)>>), JList(<<JDict(<<"score">>, <<JFloat(75)>>), JFloat(75)>>),
      JDict(<<"not">>, <<JStr("a list")>>), JStr("notalist"), JFloat(75), JInt(7),
      JBool(FALSE), JNull }

Statuses == {100, 200, 201, 304, 404, 500}

NoOutcome ==
    [kind |-> "none", cls |-> "", msg |-> "", hasResp |-> FALSE, status |-> 0, text |-> "",
     jsonOk |-> FALSE, json |-> JNull]
\* requests.post returned a response; msg is the text of the decoding error of response.json()
Response(status, text, jsonOk, json, msg) ==
    [kind |-> "response", cls |-> "", msg |-> msg, hasResp |-> TRUE, status |-> status,
     text |-> text, jsonOk |-> jsonOk, json |-> json]
\* requests.post raised an exception of class cls whose str() is msg
Raised(cls, msg, hasResp, status, text) ==
    [kind |-> "raise", cls |-> cls, msg |-> msg, hasResp |-> hasResp, status |-> status,
     text |-> text, jsonOk |-> FALSE, json |-> JNull]
MsgDecode == "Expecting value: line 1 column 1 (char 0)"
\* every sample value with status 200; for the other statuses a body that decodes and
\* one that does not
PostOutcomes ==
    { Response(200, JsonDumps(v), TRUE, v, "") : v \in JsonSamples }
    \cup { Response(st, JsonDumps(JList(<<JFloat(75)>>)), TRUE, JList(<<JFloat(75)>>), "") :
             st \in Statuses }
    \cup { Response(st, "Internal Server Error", FALSE, JNull, MsgDecode) : st \in Statuses }
    \cup { Response(200, "", FALSE, JNull, MsgDecode),
           Raised("Exception", "Test exception", FALSE, 0, ""),
           Raised("ConnectionError", "", FALSE, 0, ""),
           Raised("HTTPError", "bad gateway", FALSE, 0, ""),
           Raised("HTTPError", "service unavailable", TRUE, 503, "Service Unavailable") }

Chars == {" ", "a"}
CharSeqs == UNION { [1..k -> Chars] : k \in 0..MaxLen }
\* message.content of a choice: a str or None
Contents == { [none |-> FALSE, chars |-> c] : c \in CharSeqs } \cup { [none |-> TRUE, chars |-> <<>>] }
OtherChoice == [none |-> FALSE, chars |-> <<"b">>]
NoCreate == [kind |-> "none", msg |-> "", choices |-> <<>>]
CreateOutcomes ==
    { [kind |-> "response", msg |-> "", choices |-> <<c>>] : c \in Contents }
    \cup { [kind |-> "response", msg |-> "", choices |-> <<c, OtherChoice>>] : c \in Contents }
    \cup { [kind |-> "response", msg |-> "", choices |-> <<>>],
           [kind |-> "raise", msg |-> "GPT error!", choices |-> <<>>],
           [kind |-> "raise", msg |-> "", choices |-> <<>>] }

(***************************************************************************)
(* The functions of wine_app.py.                                           *)
(***************************************************************************)
\* all([AZURE_ENDPOINT_URI, AZURE_API_KEY, OPENAI_API_KEY])
\* any() where line 21 has all()
AllPresent_Any(e) == Truthy(e.AZURE_ENDPOINT_URI) \/ Truthy(e.AZURE_API_KEY) \/ Truthy(e.OPENAI_API_KEY)
AllPresent(e) == Truthy(e.AZURE_ENDPOINT_URI) /\ Truthy(e.AZURE_API_KEY) /\ Truthy(e.OPENAI_API_KEY)

\* the content of the list object the name AZURE_ML_COLUMNS is bound to (line 13);
\* every payload refers to this one object (line 62)
VARIABLE ml_columns

\* a builder with ph_val and sulphates_val exchanged in the row
get_input_data_payload_PhSulphatesSwapped(w) ==
    JDict(<<"columns", "data">>,
          << JList([i \in 1..Len(ml_columns) |-> JStr(ml_columns[i])]),
             JList(<< JList(<< w[1], w[2], w[3], w[4], w[5], w[6], w[7], w[8], w[10], w[9],
                               w[11], w[12], w[13] >>) >>) >>)
\* a builder that leaves the last value, qual_bool_val, out of the row
get_input_data_payload_NoQualBool(w) ==
    JDict(<<"columns", "data">>,
          << JList([i \in 1..Len(ml_columns) |-> JStr(ml_columns[i])]),
             JList(<< JList(<< w[1], w[2], w[3], w[4], w[5], w[6], w[7], w[8], w[9], w[10],
                               w[11], w[12] >>) >>) >>)
get_input_data_payload(w) ==
    JDict(<<"columns", "data">>,
          << JList([i \in 1..Len(ml_columns) |-> JStr(ml_columns[i])]),
             JList(<< JList(<< w[1], w[2], w[3], w[4], w[5], w[6], w[7], w[8], w[9], w[10],
                               w[11], w[12], w[13] >>) >>) >>)

\* prompt_params of the main block: w is the tuple of widget values
prompt_params(w) ==
    JDict(<<"color", "alcohol", "ph", "residual_sugar", "fixed_acidity", "volatile_acidity",
            "sulphates">>,
          << w[12], w[11], w[9], w[4], w[1], w[2], w[10] >>)

construct_openai_prompt(quality_score, color, alcohol, ph, residual_sugar, fixed_acidity, volatile_acidity, sulphates) ==
    "\n    A " \o PyStr(color) \o " wine has a predicted quality score of "
        \o Fmt1f(quality_score) \o ".\n"
    \o "    Characteristics:\n"
    \o "    - Alcohol: " \o PyStr(alcohol) \o "%\n"
    \o "    - pH: " \o PyStr(ph) \o "\n"
    \o "    - Residual sugar: " \o PyStr(residual_sugar) \o "g/L\n"
    \o "    - Fixed acidity: " \o PyStr(fixed_acidity) \o "\n"
    \o "    - Volatile acidity: " \o PyStr(volatile_acidity) \o "\n"
    \o "    - Sulphates: " \o PyStr(sulphates) \o "\n"
    \o "\n"
    \o "    Write a 2-sentence tasting description and suggest a food pairing.\n"
    \o "    "

\* what a call returns: a (value, error) pair, or an exception that leaves the function
Returned(result, error) == [raised |-> FALSE, exc |-> "", result |-> result, error |-> error]
Propagated(exc) == [raised |-> TRUE, exc |-> exc, result |-> PyNone, error |-> NoStr]

\* a raise_for_status that raises for the 5xx statuses only
RaisesForStatus_5xxOnly(status) == 500 <= status /\ status < 600

\* Response.raise_for_status(): raises HTTPError for a 4xx or 5xx status
RaisesForStatus(status) == 400 <= status /\ status < 600

\* a fetch_prediction_from_azure that leaves the response body out of the HTTP error message
fetch_prediction_StatusOnly(o) ==
    IF o.kind = "response" /\ 400 <= o.status /\ o.status < 600
    THEN Returned(PyNone, SomeStr("Azure ML call failed (" \o ToString(o.status) \o ")"))
    ELSE IF o.kind = "response" /\ o.jsonOk THEN Returned(o.json, NoStr)
    ELSE IF o.cls = "HTTPError" /\ ~o.hasResp THEN Propagated("AttributeError")
    ELSE IF o.cls = "HTTPError"
         THEN Returned(PyNone, SomeStr("Azure ML call failed (" \o ToString(o.status) \o ")"))
    ELSE Returned(PyNone, SomeStr("Error calling Azure ML: " \o o.msg))

\* the body of fetch_prediction_from_azure, given what requests.post does
fetch_prediction_from_azure(o) ==
    LET exc ==  \* the exception raised inside the try block, if any
            IF o.kind = "raise" THEN [cls |-> o.cls, msg |-> o.msg, hasResp |-> o.hasResp]
            ELSE IF RaisesForStatus(o.status)
                 THEN [cls |-> "HTTPError", msg |-> "", hasResp |-> TRUE]
            ELSE IF ~o.jsonOk THEN [cls |-> "JSONDecodeError", msg |-> o.msg, hasResp |-> FALSE]
            ELSE [cls |-> "", msg |-> "", hasResp |-> FALSE]
    IN  IF exc.cls = "" THEN Returned(o.json, NoStr)
        ELSE IF exc.cls = "HTTPError"
             THEN IF exc.hasResp
                  THEN Returned(PyNone, SomeStr("Azure ML call failed (" \o ToString(o.status)
                                                \o "): " \o o.text))
                  ELSE Propagated("AttributeError")  \* http_err.response is None
        ELSE Returned(PyNone, SomeStr("Error calling Azure ML: " \o exc.msg))

\* the body of generate_description_with_openai, given what chat.completions.create does;
\* the result is the tasting note as an optional str
\* a handler that returns str(e) alone as the error
generate_description_StrOnly(client, o) ==
    IF client = "none" THEN Returned(NoStr, SomeStr(MsgClientUnavailable))
    ELSE IF o.kind = "raise" THEN Returned(NoStr, SomeStr(o.msg))
    ELSE IF o.choices = <<>> THEN Returned(NoStr, SomeStr("list index out of range"))
    ELSE IF o.choices[1].none
         THEN Returned(NoStr, SomeStr("'NoneType' object has no attribute 'strip'"))
    ELSE Returned(SomeStr(Join(Strip(o.choices[1].chars))), NoStr)
generate_description_with_openai(client, o) ==
    IF client = "none" THEN Returned(NoStr, SomeStr(MsgClientUnavailable))
    ELSE IF o.kind = "raise" THEN Returned(NoStr, SomeStr("Error calling OpenAI: " \o o.msg))
    ELSE IF o.choices = <<>>
         THEN Returned(NoStr, SomeStr("Error calling OpenAI: list index out of range"))
    ELSE IF o.choices[1].none
         THEN Returned(NoStr, SomeStr("Error calling OpenAI: 'NoneType' object has no attribute 'strip'"))
    ELSE Returned(SomeStr(Join(Strip(o.choices[1].chars))), NoStr)

(***************************************************************************)
(* The response interpreter of display_results (lines 151-160).            *)
(***************************************************************************)
NoQuality == [none |-> TRUE, n |-> 0]

\* a classification without the branch of line 157: an empty list is an unexpected shape
Classify_NoEmptyBranch(prediction_result) ==
    IF IsList(prediction_result) /\ Len(prediction_result.items) > 0
    THEN IF IsIntOrFloat(prediction_result.items[1])
         THEN "NumericScore"
         ELSE "NonNumericFirstElement"
    ELSE "UnexpectedShape"

\* the branch of lines 152-160 taken for a prediction result
Classify(prediction_result) ==
    IF IsList(prediction_result) /\ Len(prediction_result.items) > 0
    THEN IF IsIntOrFloat(prediction_result.items[1])
         THEN "NumericScore"
         ELSE "NonNumericFirstElement"
    ELSE IF IsList(prediction_result) /\ Len(prediction_result.items) = 0
         THEN "EmptyList"
    ELSE "UnexpectedShape"

\* a quality taken from the last element of the list instead of the first
Quality_LastElement(prediction_result) ==
    IF IsList(prediction_result) /\ Len(prediction_result.items) > 0
       /\ IsIntOrFloat(prediction_result.items[1])
    THEN [none |-> FALSE, n |-> PyFloat(prediction_result.items[Len(prediction_result.items)])]
    ELSE [none |-> TRUE, n |-> 0]

\* quality after lines 151-160: None, or float(prediction_result[0]) in tenths
Quality(prediction_result) ==
    IF Classify(prediction_result) = "NumericScore"
    THEN [none |-> FALSE, n |-> PyFloat(prediction_result.items[1])]
    ELSE NoQuality

(***************************************************************************)
(* State.                                                                  *)
(***************************************************************************)
VARIABLES
    env,                \* the three environment variables read at lines 8-10
    openai_client,      \* "none" before the script ran, "client" once line 31 ran
    pc,                 \* where the current script run stands
    runs,               \* button presses so far
    trace,              \* this run's Streamlit calls and outbound requests, in order
    azure_payload,      \* arguments of the current display_results call
    prompt_parameters,
    input_data_json,    \* line 138
    pred,               \* what fetch_prediction_from_azure returned (line 139)
    prompt_text,        \* line 166
    note,               \* what generate_description_with_openai returned (line 177)
    azure_cache,        \* st.cache_data of fetch_prediction_from_azure: body -> pair
    openai_cache,       \* st.cache_data of generate_description_with_openai: prompt -> pair
    last_post,          \* what requests.post did in this run, NoOutcome if it was not called
    last_create,        \* what chat.completions.create did in this run, NoCreate if not called
    widgets,            \* the 13 widget values of the last script run (lines 36-48)
    post_count,         \* body -> number of requests.post calls made with it, over all runs
    create_count,       \* prompt -> number of chat.completions.create calls made with it
    sessions,           \* overlapping sessions: session -> where its script run is and what it holds
    cache_writes        \* overlapping sessions: <<cache, key>> -> number of writes of the entry

vars == << env, openai_client, pc, runs, trace, azure_payload, prompt_parameters,
           input_data_json, pred, prompt_text, note, azure_cache, openai_cache,
           last_post, last_create, ml_columns, widgets, post_count, create_count,
           sessions, cache_writes >>

\* one entry of trace: a Streamlit call (kind is the st function), or an outbound request
Ev(kind, text, obj) == [kind |-> kind, text |-> text, obj |-> obj]

NoPair == Returned(PyNone, NoStr)
NoNote == Returned(NoStr, NoStr)
EmptyCache == [k \in {} |-> NoPair]
NoCalls == [k \in {} |-> 0]
NoSessions == [s \in {} |-> 0]
Counted(count, key) ==
    [k \in DOMAIN count \cup {key} |->
        IF k = key THEN (IF key \in DOMAIN count THEN count[key] + 1 ELSE 1) ELSE count[k]]
\* a cache that keeps a pair only when its error is None
Store_SuccessOnly(cache, key, val) ==
    IF val.error.none
    THEN [k \in DOMAIN cache \cup {key} |-> IF k = key THEN val ELSE cache[k]]
    ELSE cache
Store(cache, key, val) == [k \in DOMAIN cache \cup {key} |-> IF k = key THEN val ELSE cache[k]]

Init ==
    /\ env \in EnvSamples
    /\ openai_client = "none"
    /\ pc = "idle"
    /\ runs = 0
    /\ trace = <<>>
    /\ azure_payload = PyNone
    /\ prompt_parameters = PyNone
    /\ input_data_json = ""
    /\ pred = NoPair
    /\ prompt_text = ""
    /\ note = NoNote
    /\ azure_cache = EmptyCache
    /\ openai_cache = EmptyCache
    /\ last_post = NoOutcome
    /\ last_create = NoCreate
    /\ ml_columns = AZURE_ML_COLUMNS
    /\ widgets = <<>>
    /\ post_count = NoCalls
    /\ create_count = NoCalls
    /\ sessions = NoSessions
    /\ cache_writes = NoCalls

\* the request of line 103
\* a request that sends the key itself as the Authorization header
PostRequest_NoBearer(e, body) ==
    Ev("requests.post", body,
       JDict(<<"url", "Content-Type", "Authorization">>,
             << JStr(e.AZURE_ENDPOINT_URI.s), JStr("application/json"),
                JStr(e.AZURE_API_KEY.s) >>))
PostRequest(e, body) ==
    Ev("requests.post", body,
       JDict(<<"url", "Content-Type", "Authorization">>,
             << JStr(e.AZURE_ENDPOINT_URI.s), JStr("application/json"),
                JStr("Bearer " \o e.AZURE_API_KEY.s) >>))

\* the request of lines 120-125
CreateRequest(prompt) ==
    Ev("chat.completions.create", prompt,
       JDict(<<"model", "role", "temperature", "max_tokens">>,
             << JStr(OPENAI_MODEL_NAME), JStr("user"), JFloat(7), JInt(200) >>))

Terminal == {"done", "stopped", "raised"}

(***************************************************************************)
(* A script run with the button pressed: lines 8-48 and 190-213, and       *)
(* display_results up to the call of fetch_prediction_from_azure.  With    *)
(* a variable missing the run stops at line 23.  On a cache hit the        *)
(* memoized pair is returned and no request is sent.                       *)
(***************************************************************************)
PressButton(w) ==
    /\ UNCHANGED << sessions, cache_writes >>
    /\ pc \in {"idle"} \cup Terminal
    /\ runs < MaxRuns
    /\ runs' = runs + 1
    /\ last_post' = NoOutcome
    /\ last_create' = NoCreate
    /\ prompt_text' = ""
    /\ note' = NoNote
    /\ UNCHANGED << env, azure_cache, openai_cache, ml_columns, create_count >>
    /\ IF ~AllPresent(env)
       THEN /\ trace' = << Ev("error", MsgMissingEnv, PyNone) >>
            /\ pc' = "stopped"
            /\ pred' = NoPair
            /\ UNCHANGED << openai_client, azure_payload, prompt_parameters, input_data_json,
                            widgets, post_count >>
       ELSE LET payload == get_input_data_payload(w)
                body == JsonDumps(JDict(<<"input_data">>, <<payload>>))
                shown == << Ev("write", MsgRawInput, payload) >>
            IN  /\ openai_client' = "client"
                /\ widgets' = w
                /\ azure_payload' = payload
                /\ prompt_parameters' = prompt_params(w)
                /\ input_data_json' = body
                /\ IF body \in DOMAIN azure_cache
                   THEN /\ pred' = azure_cache[body]
                        /\ trace' = shown
                        /\ pc' = "fetched"
                        /\ UNCHANGED post_count
                   ELSE /\ pred' = NoPair
                        /\ trace' = Append(shown, PostRequest(env, body))
                        /\ post_count' = Counted(post_count, body)
                        /\ pc' = "post"

(***************************************************************************)
(* requests.post returns or raises; fetch_prediction_from_azure turns it   *)
(* into a pair, which st.cache_data stores, or lets an exception out.      *)
(***************************************************************************)
\* a fetch that posts the body again when the attempt ended in an error
PostCompletes_Retry(o) ==
    /\ UNCHANGED << sessions, cache_writes >>
    /\ pc = "post"
    /\ last_post' = o
    /\ LET r == fetch_prediction_from_azure(o)
       IN  IF r.raised
           THEN /\ pc' = "raised"
                /\ trace' = Append(trace, Ev("exception", r.exc, PyNone))
                /\ UNCHANGED << pred, azure_cache, post_count >>
           ELSE IF Truthy(r.error)
           THEN /\ pc' = "post"
                /\ trace' = Append(trace, PostRequest(env, input_data_json))
                /\ post_count' = Counted(post_count, input_data_json)
                /\ UNCHANGED << pred, azure_cache >>
           ELSE /\ pc' = "fetched"
                /\ pred' = r
                /\ azure_cache' = Store(azure_cache, input_data_json, r)
                /\ UNCHANGED << trace, post_count >>
    /\ UNCHANGED << env, openai_client, runs, azure_payload, prompt_parameters,
                    input_data_json, prompt_text, note, openai_cache, last_create,
                    ml_columns, widgets, create_count >>

\* a fetch that takes the last name off the list the payload's "columns" refers to
PostCompletes_PopsColumn(o) ==
    /\ UNCHANGED << sessions, cache_writes >>
    /\ pc = "post"
    /\ last_post' = o
    /\ LET r == fetch_prediction_from_azure(o)
       IN  IF r.raised
           THEN /\ pc' = "raised"
                /\ trace' = Append(trace, Ev("exception", r.exc, PyNone))
                /\ UNCHANGED << pred, azure_cache >>
           ELSE /\ pc' = "fetched"
                /\ pred' = r
                /\ azure_cache' = Store(azure_cache, input_data_json, r)
                /\ UNCHANGED trace
    /\ UNCHANGED << env, openai_client, runs, azure_payload, prompt_parameters,
                    input_data_json, prompt_text, note, openai_cache, last_create,
                    widgets, post_count, create_count >>
    /\ ml_columns' = SubSeq(ml_columns, 1, Len(ml_columns) - 1)

PostCompletes(o) ==
    /\ UNCHANGED << sessions, cache_writes >>
    /\ pc = "post"
    /\ last_post' = o
    /\ LET r == fetch_prediction_from_azure(o)
       IN  IF r.raised
           THEN /\ pc' = "raised"
                /\ trace' = Append(trace, Ev("exception", r.exc, PyNone))
                /\ UNCHANGED << pred, azure_cache >>
           ELSE /\ pc' = "fetched"
                /\ pred' = r
                /\ azure_cache' = Store(azure_cache, input_data_json, r)
                /\ UNCHANGED trace
    /\ UNCHANGED << env, openai_client, runs, azure_payload, prompt_parameters,
                    input_data_json, prompt_text, note, openai_cache, last_create,
                    ml_columns, widgets, post_count, create_count >>

\* lines 152-160 with "if" for the "elif" of line 157: the else branch also runs for every
\* non-empty list
ShapeWarnings_IfForElif(prediction_result) ==
    (IF IsList(prediction_result) /\ Len(prediction_result.items) > 0
        /\ ~IsIntOrFloat(prediction_result.items[1])
     THEN << Ev("warning", MsgNotANumber \o PyStr(prediction_result.items[1]), PyNone) >>
     ELSE <<>>)
    \o (IF IsList(prediction_result) /\ Len(prediction_result.items) = 0
        THEN << Ev("warning", MsgEmptyList, PyNone) >>
        ELSE << Ev("warning", MsgUnexpected \o PyStr(prediction_result), PyNone) >>)

\* st.warning of lines 156, 158, 160
ShapeWarnings(prediction_result) ==
    CASE Classify(prediction_result) = "NumericScore" -> <<>>
      [] Classify(prediction_result) = "NonNumericFirstElement" ->
            << Ev("warning", MsgNotANumber \o PyStr(prediction_result.items[1]), PyNone) >>
      [] Classify(prediction_result) = "EmptyList" ->
            << Ev("warning", MsgEmptyList, PyNone) >>
      [] Classify(prediction_result) = "UnexpectedShape" ->
            << Ev("warning", MsgUnexpected \o PyStr(prediction_result), PyNone) >>

(***************************************************************************)
(* display_results from line 141 to the call of                            *)
(* generate_description_with_openai at line 177.                           *)
(***************************************************************************)
\* lines 141-147 without their two return statements: the run goes on to lines 149-187
Interpret_NoReturn ==
    /\ UNCHANGED << sessions, cache_writes >>
    /\ pc = "fetched"
    /\ UNCHANGED << env, openai_client, runs, azure_payload, prompt_parameters,
                    input_data_json, pred, azure_cache, last_post, ml_columns, widgets,
                    post_count >>
    /\ IF Truthy(pred.error)
       THEN /\ trace' = trace \o << Ev("error", "[x] " \o pred.error.s, PyNone),
                                    Ev("error", MsgResultIsNone, PyNone),
                                    Ev("write", MsgRawResponse, pred.result),
                                    Ev("warning", MsgUnexpected \o PyStr(pred.result), PyNone),
                                    Ev("warning", MsgCannotGenerate, PyNone) >>
            /\ pc' = "done"
            /\ UNCHANGED << prompt_text, note, openai_cache, last_create, create_count >>
       ELSE IF pred.result = PyNone
       THEN /\ trace' = trace \o << Ev("error", MsgResultIsNone, PyNone),
                                    Ev("write", MsgRawResponse, pred.result),
                                    Ev("warning", MsgUnexpected \o PyStr(pred.result), PyNone),
                                    Ev("warning", MsgCannotGenerate, PyNone) >>
            /\ pc' = "done"
            /\ UNCHANGED << prompt_text, note, openai_cache, last_create, create_count >>
       ELSE LET quality == Quality(pred.result)
                shown == Append(trace, Ev("write", MsgRawResponse, pred.result))
                             \o ShapeWarnings(pred.result)
            IN  IF quality.none
                THEN /\ trace' = Append(shown, Ev("warning", MsgCannotGenerate, PyNone))
                     /\ pc' = "done"
                     /\ UNCHANGED << prompt_text, note, openai_cache, last_create, create_count >>
                ELSE LET prompt ==
                             construct_openai_prompt(quality.n,
                                 Get(prompt_parameters, "color"),
                                 Get(prompt_parameters, "alcohol"),
                                 Get(prompt_parameters, "ph"),
                                 Get(prompt_parameters, "residual_sugar"),
                                 Get(prompt_parameters, "fixed_acidity"),
                                 Get(prompt_parameters, "volatile_acidity"),
                                 Get(prompt_parameters, "sulphates"))
                         scored == Append(shown, Ev("success", MsgScore \o Fmt2f(quality.n), PyNone))
                     IN  /\ prompt_text' = prompt
                         /\ UNCHANGED last_create
                         /\ IF prompt \in DOMAIN openai_cache
                            THEN /\ note' = openai_cache[prompt]
                                 /\ trace' = scored
                                 /\ pc' = "generated"
                                 /\ UNCHANGED << openai_cache, create_count >>
                            ELSE IF openai_client = "none"
                            THEN /\ note' = generate_description_with_openai(openai_client, NoCreate)
                                 /\ openai_cache' = Store(openai_cache, prompt, note')
                                 /\ trace' = scored
                                 /\ pc' = "generated"
                                 /\ UNCHANGED create_count
                            ELSE /\ trace' = Append(scored, CreateRequest(prompt))
                                 /\ create_count' = Counted(create_count, prompt)
                                 /\ pc' = "create"
                                 /\ UNCHANGED << note, openai_cache >>

Interpret ==
    /\ UNCHANGED << sessions, cache_writes >>
    /\ pc = "fetched"
    /\ UNCHANGED << env, openai_client, runs, azure_payload, prompt_parameters,
                    input_data_json, pred, azure_cache, last_post, ml_columns, widgets,
                    post_count >>
    /\ IF Truthy(pred.error)
       THEN /\ trace' = Append(trace, Ev("error", "[x] " \o pred.error.s, PyNone))
            /\ pc' = "done"
            /\ UNCHANGED << prompt_text, note, openai_cache, last_create, create_count >>
       ELSE IF pred.result = PyNone
       THEN /\ trace' = Append(trace, Ev("error", MsgResultIsNone, PyNone))
            /\ pc' = "done"
            /\ UNCHANGED << prompt_text, note, openai_cache, last_create, create_count >>
       ELSE LET quality == Quality(pred.result)
                shown == Append(trace, Ev("write", MsgRawResponse, pred.result))
                             \o ShapeWarnings(pred.result)
            IN  IF quality.none
                THEN /\ trace' = Append(shown, Ev("warning", MsgCannotGenerate, PyNone))
                     /\ pc' = "done"
                     /\ UNCHANGED << prompt_text, note, openai_cache, last_create, create_count >>
                ELSE LET prompt ==
                             construct_openai_prompt(quality.n,
                                 Get(prompt_parameters, "color"),
                                 Get(prompt_parameters, "alcohol"),
                                 Get(prompt_parameters, "ph"),
                                 Get(prompt_parameters, "residual_sugar"),
                                 Get(prompt_parameters, "fixed_acidity"),
                                 Get(prompt_parameters, "volatile_acidity"),
                                 Get(prompt_parameters, "sulphates"))
                         scored == Append(shown, Ev("success", MsgScore \o Fmt2f(quality.n), PyNone))
                     IN  /\ prompt_text' = prompt
                         /\ UNCHANGED last_create
                         /\ IF prompt \in DOMAIN openai_cache
                            THEN /\ note' = openai_cache[prompt]
                                 /\ trace' = scored
                                 /\ pc' = "generated"
                                 /\ UNCHANGED << openai_cache, create_count >>
                            ELSE IF openai_client = "none"
                            THEN /\ note' = generate_description_with_openai(openai_client, NoCreate)
                                 /\ openai_cache' = Store(openai_cache, prompt, note')
                                 /\ trace' = scored
                                 /\ pc' = "generated"
                                 /\ UNCHANGED create_count
                            ELSE /\ trace' = Append(scored, CreateRequest(prompt))
                                 /\ create_count' = Counted(create_count, prompt)
                                 /\ pc' = "create"
                                 /\ UNCHANGED << note, openai_cache >>

(***************************************************************************)
(* chat.completions.create returns or raises;                              *)
(* generate_description_with_openai turns it into a pair, which            *)
(* st.cache_data stores.                                                   *)
(***************************************************************************)
CreateCompletes(o) ==
    /\ UNCHANGED << sessions, cache_writes >>
    /\ pc = "create"
    /\ last_create' = o
    /\ note' = generate_description_with_openai(openai_client, o)
    /\ openai_cache' = Store(openai_cache, prompt_text, note')
    /\ pc' = "generated"
    /\ UNCHANGED << env, openai_client, runs, trace, azure_payload, prompt_parameters,
                    input_data_json, pred, prompt_text, azure_cache, last_post,
                    ml_columns, widgets, post_count, create_count >>

(***************************************************************************)
(* display_results, lines 179-185.                                         *)
(***************************************************************************)
\* lines 179-185 with "elif tasting_note is not None" for the "elif tasting_note" of line 181
ShowNote_IsNotNone ==
    /\ UNCHANGED << sessions, cache_writes >>
    /\ pc = "generated"
    /\ trace' =
          IF Truthy(note.error)
          THEN Append(trace, Ev("error", MsgOpenAIError \o note.error.s, PyNone))
          ELSE IF ~note.result.none
          THEN trace \o << Ev("markdown", MsgHeading, PyNone), Ev("write", note.result.s, PyNone) >>
          ELSE Append(trace, Ev("warning", MsgNoNote, PyNone))
    /\ pc' = "done"
    /\ UNCHANGED << env, openai_client, runs, azure_payload, prompt_parameters,
                    input_data_json, pred, prompt_text, note, azure_cache, openai_cache,
                    last_post, last_create, ml_columns, widgets, post_count, create_count >>

ShowNote ==
    /\ UNCHANGED << sessions, cache_writes >>
    /\ pc = "generated"
    /\ trace' =
          IF Truthy(note.error)
          THEN Append(trace, Ev("error", MsgOpenAIError \o note.error.s, PyNone))
          ELSE IF Truthy(note.result)
          THEN trace \o << Ev("markdown", MsgHeading, PyNone), Ev("write", note.result.s, PyNone) >>
          ELSE Append(trace, Ev("warning", MsgNoNote, PyNone))
    /\ pc' = "done"
    /\ UNCHANGED << env, openai_client, runs, azure_payload, prompt_parameters,
                    input_data_json, pred, prompt_text, note, azure_cache, openai_cache,
                    last_post, last_create, ml_columns, widgets, post_count, create_count >>

Next ==
    \/ \E w \in WineSamples : PressButton(w)
    \/ \E o \in PostOutcomes : PostCompletes(o)
    \/ Interpret
    \/ \E o \in CreateOutcomes : CreateCompletes(o)
    \/ ShowNote

Spec == Init /\ [][Next]_vars

(***************************************************************************)
(* The application with its scheduling: a call that was issued returns or  *)
(* raises, and the script, which is straight-line code, takes its next     *)
(* step.  Nothing makes the user press the button.                         *)
(***************************************************************************)
Fairness ==
    /\ WF_vars(\E o \in PostOutcomes : PostCompletes(o))
    /\ WF_vars(Interpret)
    /\ WF_vars(\E o \in CreateOutcomes : CreateCompletes(o))
    /\ WF_vars(ShowNote)

SpecLive == Init /\ [][Next]_vars /\ Fairness

(***************************************************************************)
(* generate_description_with_openai on its own (lines 111-128): the        *)
(* function reads the global openai_client and the prompt, and what        *)
(* chat.completions.create does when it is called.  GenInit draws the      *)
(* three, GenApply is one call of the function.                            *)
(***************************************************************************)
GenQualities == {62, 75}
GenPrompts ==
    { construct_openai_prompt(q, w[12], w[11], w[9], w[4], w[1], w[2], w[10]) :
        q \in GenQualities, w \in WineSamples }

GenInit ==
    /\ env = EnvPresent
    /\ openai_client \in {"none", "client"}
    /\ pc = "gen_call"
    /\ runs = 0
    /\ trace = <<>>
    /\ azure_payload = PyNone
    /\ prompt_parameters = PyNone
    /\ input_data_json = ""
    /\ pred = NoPair
    /\ prompt_text \in GenPrompts
    /\ note = NoNote
    /\ azure_cache = EmptyCache
    /\ openai_cache = EmptyCache
    /\ last_post = NoOutcome
    /\ last_create \in CreateOutcomes
    /\ ml_columns = AZURE_ML_COLUMNS
    /\ widgets = <<>>
    /\ post_count = NoCalls
    /\ create_count = NoCalls
    /\ sessions = NoSessions
    /\ cache_writes = NoCalls

GenApply ==
    /\ UNCHANGED << sessions, cache_writes >>
    /\ pc = "gen_call"
    /\ note' = generate_description_with_openai(openai_client, last_create)
    /\ pc' = "gen_returned"
    /\ UNCHANGED << env, openai_client, runs, trace, azure_payload, prompt_parameters,
                    input_data_json, pred, prompt_text, azure_cache, openai_cache,
                    last_post, last_create, ml_columns, widgets, post_count, create_count >>

GenNext == GenApply

SpecGenerate == GenInit /\ [][GenNext]_vars

(***************************************************************************)
(* The earlier revision of the script ("Load secrets from                  *)
(* .streamlit/secrets.toml", lines 50-105): what one press of its button   *)
(* puts on the page and which calls it makes, for what requests.post does  *)
(* (o) and what chat.completions.create does if it is called (g).  The     *)
(* text of its prompt (lines 72-83) is not kept.                           *)
(***************************************************************************)
\* str(e) of the exception format(quality, ".2f") raises for a value that is no number
EarlierFormatError(quality) ==
    IF quality.t = "str" THEN "Unknown format code 'f' for object of type 'str'"
    ELSE IF quality.t = "list" THEN "unsupported format string passed to list.__format__"
    ELSE "unsupported format string passed to dict.__format__"

\* lines 85-97: the inner try
EarlierNote(g) ==
    IF g.kind = "raise"
    THEN << Ev("error", "[!] GPT generation failed: " \o g.msg, PyNone) >>
    ELSE IF g.choices = <<>>
    THEN << Ev("markdown", "### [wine] GPT-Generated Tasting Note", PyNone),
            Ev("error", "[!] GPT generation failed: list index out of range", PyNone) >>
    ELSE IF g.choices[1].none
    THEN << Ev("markdown", "### [wine] GPT-Generated Tasting Note", PyNone),
            Ev("error", "[!] GPT generation failed: 'NoneType' object has no attribute 'strip'",
               PyNone) >>
    ELSE << Ev("markdown", "### [wine] GPT-Generated Tasting Note", PyNone),
            Ev("write", Join(Strip(g.choices[1].chars)), PyNone) >>

\* lines 51-105: the outer try
EarlierRun(o, g) ==
    IF o.kind = "raise"
    THEN << Ev("error", "[!] Unexpected error: " \o o.msg, PyNone) >>
    ELSE IF o.status = 200
    THEN IF ~o.jsonOk
         THEN << Ev("error", "[!] Unexpected error: " \o o.msg, PyNone) >>
         ELSE LET result == o.json
                  raw == << Ev("write", "[ok] Raw model response:", result) >>
                  quality == IF IsList(result) /\ Len(result.items) > 0
                             THEN result.items[1] ELSE PyNone
              IN  IF quality = PyNone
                  THEN Append(raw, Ev("warning", "Prediction returned no value.", PyNone))
                  ELSE IF quality.t \notin {"int", "float", "bool"}
                  THEN Append(raw, Ev("error",
                                      "[!] Unexpected error: " \o EarlierFormatError(quality),
                                      PyNone))
                  ELSE raw
                       \o << Ev("success",
                                "Predicted Wine Quality Score: " \o Fmt2f(PyFloat(quality)),
                                PyNone),
                             Ev("chat.completions.create", "",
                                JDict(<<"model", "role", "temperature", "max_tokens">>,
                                      << JStr("gpt-4o"), JStr("user"), JFloat(7), JInt(150) >>)) >>
                       \o EarlierNote(g)
    ELSE << Ev("error", "[x] Azure ML call failed (" \o ToString(o.status) \o ")", PyNone),
            Ev("text", o.text, PyNone) >>

(***************************************************************************)
(* Overlapping sessions.  Streamlit runs the script of every browser       *)
(* session in a thread of its own, and the two st.cache_data caches (lines *)
(* 92 and 111) are shared by all sessions.  Each session here presses the  *)
(* button once.  A memoized call reads the cache; on a miss it takes the   *)
(* lock st.cache_data keeps for the key, reads the cache again, and only   *)
(* then calls the function and writes what it returned; a function that    *)
(* raises writes nothing.  What a session puts on the page is not kept.    *)
(***************************************************************************)
Sessions == {1, 2}
OvPostOutcomes ==
    { Response(200, JsonDumps(JList(<<JFloat(75)>>)), TRUE, JList(<<JFloat(75)>>), ""),
      Response(200, JsonDumps(JList(<<JInt(7)>>)), TRUE, JList(<<JInt(7)>>), ""),
      Response(500, "Internal Server Error", FALSE, JNull, MsgDecode),
      Raised("HTTPError", "bad gateway", FALSE, 0, "") }
OvCreateOutcomes ==
    { [kind |-> "response", msg |-> "", choices |-> << [none |-> FALSE, chars |-> <<"a">>] >>],
      [kind |-> "response", msg |-> "", choices |-> << [none |-> FALSE, chars |-> <<" ">>] >>],
      [kind |-> "raise", msg |-> "GPT error!", choices |-> <<>>] }
IdleSession ==
    [pc |-> "idle", body |-> "", prompt_params |-> PyNone, pred |-> NoPair, pred_via |-> "",
     prompt |-> "", note |-> NoNote, note_via |-> ""]

OvInit ==
    /\ env = EnvPresent
    /\ openai_client = "client"
    /\ pc = "overlap"
    /\ runs = 0
    /\ trace = <<>>
    /\ azure_payload = PyNone
    /\ prompt_parameters = PyNone
    /\ input_data_json = ""
    /\ pred = NoPair
    /\ prompt_text = ""
    /\ note = NoNote
    /\ azure_cache = EmptyCache
    /\ openai_cache = EmptyCache
    /\ last_post = NoOutcome
    /\ last_create = NoCreate
    /\ ml_columns = AZURE_ML_COLUMNS
    /\ widgets = <<>>
    /\ post_count = NoCalls
    /\ create_count = NoCalls
    /\ sessions = [s \in Sessions |-> IdleSession]
    /\ cache_writes = NoCalls

\* what no session touches
OvFrame ==
    UNCHANGED << env, openai_client, pc, runs, trace, azure_payload, prompt_parameters,
                 input_data_json, pred, prompt_text, note, last_post, last_create,
                 ml_columns, widgets >>

\* the lock of a key is held by the session whose call for that key is in flight
PostInFlight(body) == \E t \in Sessions : sessions[t].pc = "post" /\ sessions[t].body = body
CreateInFlight(prompt) ==
    \E t \in Sessions : sessions[t].pc = "create" /\ sessions[t].prompt = prompt

\* lines 190-207: the button is pressed in session s with the widget values w
OvPress(s, w) ==
    /\ sessions[s].pc = "idle"
    /\ sessions' = [sessions EXCEPT ![s] =
          [@ EXCEPT !.pc = "fetch",
                    !.body = JsonDumps(JDict(<<"input_data">>, <<get_input_data_payload(w)>>)),
                    !.prompt_params = prompt_params(w)]]
    /\ UNCHANGED << azure_cache, openai_cache, post_count, create_count, cache_writes >>
    /\ OvFrame

\* line 139: the first read of the cache, without the lock
OvFetchLookup(s) ==
    /\ sessions[s].pc = "fetch"
    /\ sessions' = [sessions EXCEPT ![s] =
          IF @.body \in DOMAIN azure_cache
          THEN [@ EXCEPT !.pc = "fetched", !.pred = azure_cache[sessions[s].body], !.pred_via = "hit"]
          ELSE [@ EXCEPT !.pc = "fetch_wait"]]
    /\ UNCHANGED << azure_cache, openai_cache, post_count, create_count, cache_writes >>
    /\ OvFrame

\* a miss handler that calls the function without reading the cache again
OvFetchAcquire_NoRecheck(s) ==
    /\ sessions[s].pc = "fetch_wait"
    /\ ~PostInFlight(sessions[s].body)
    /\ sessions' = [sessions EXCEPT ![s] = [@ EXCEPT !.pc = "post"]]
    /\ post_count' = Counted(post_count, sessions[s].body)
    /\ UNCHANGED << azure_cache, openai_cache, create_count, cache_writes >>
    /\ OvFrame

\* line 139: the lock of the key is free; the cache is read again, and on a second miss
\* fetch_prediction_from_azure is entered and posts (line 103)
OvFetchAcquire(s) ==
    /\ sessions[s].pc = "fetch_wait"
    /\ ~PostInFlight(sessions[s].body)
    /\ IF sessions[s].body \in DOMAIN azure_cache
       THEN /\ sessions' = [sessions EXCEPT ![s] =
                  [@ EXCEPT !.pc = "fetched", !.pred = azure_cache[sessions[s].body],
                            !.pred_via = "recheck"]]
            /\ UNCHANGED post_count
       ELSE /\ sessions' = [sessions EXCEPT ![s] = [@ EXCEPT !.pc = "post"]]
            /\ post_count' = Counted(post_count, sessions[s].body)
    /\ UNCHANGED << azure_cache, openai_cache, create_count, cache_writes >>
    /\ OvFrame

\* lines 103-109: requests.post returns or raises; a returned pair is written to the cache
OvPostCompletes(s, o) ==
    /\ sessions[s].pc = "post"
    /\ LET r == fetch_prediction_from_azure(o)
       IN  IF r.raised
           THEN /\ sessions' = [sessions EXCEPT ![s] = [@ EXCEPT !.pc = "raised"]]
                /\ UNCHANGED << azure_cache, cache_writes >>
           ELSE /\ sessions' = [sessions EXCEPT ![s] =
                      [@ EXCEPT !.pc = "fetched", !.pred = r, !.pred_via = "call"]]
                /\ azure_cache' = Store(azure_cache, sessions[s].body, r)
                /\ cache_writes' = Counted(cache_writes, <<"azure", sessions[s].body>>)
    /\ UNCHANGED << openai_cache, post_count, create_count >>
    /\ OvFrame

\* lines 141-175: the run ends without a score, or the prompt is built
OvInterpret(s) ==
    /\ sessions[s].pc = "fetched"
    /\ LET p == sessions[s].pred
           params == sessions[s].prompt_params
       IN  sessions' = [sessions EXCEPT ![s] =
              IF Truthy(p.error) \/ p.result = PyNone \/ Quality(p.result).none
              THEN [@ EXCEPT !.pc = "done"]
              ELSE [@ EXCEPT !.pc = "generate",
                             !.prompt = construct_openai_prompt(Quality(p.result).n,
                                            Get(params, "color"), Get(params, "alcohol"),
                                            Get(params, "ph"), Get(params, "residual_sugar"),
                                            Get(params, "fixed_acidity"),
                                            Get(params, "volatile_acidity"),
                                            Get(params, "sulphates"))]]
    /\ UNCHANGED << azure_cache, openai_cache, post_count, create_count, cache_writes >>
    /\ OvFrame

\* line 177: the first read of the cache, without the lock
OvGenerateLookup(s) ==
    /\ sessions[s].pc = "generate"
    /\ sessions' = [sessions EXCEPT ![s] =
          IF @.prompt \in DOMAIN openai_cache
          THEN [@ EXCEPT !.pc = "done", !.note = openai_cache[sessions[s].prompt], !.note_via = "hit"]
          ELSE [@ EXCEPT !.pc = "generate_wait"]]
    /\ UNCHANGED << azure_cache, openai_cache, post_count, create_count, cache_writes >>
    /\ OvFrame

\* line 177: the lock of the key is free; the cache is read again, and on a second miss
\* generate_description_with_openai is entered and calls create (line 120)
OvGenerateAcquire(s) ==
    /\ sessions[s].pc = "generate_wait"
    /\ ~CreateInFlight(sessions[s].prompt)
    /\ IF sessions[s].prompt \in DOMAIN openai_cache
       THEN /\ sessions' = [sessions EXCEPT ![s] =
                  [@ EXCEPT !.pc = "done", !.note = openai_cache[sessions[s].prompt],
                            !.note_via = "recheck"]]
            /\ UNCHANGED create_count
       ELSE /\ sessions' = [sessions EXCEPT ![s] = [@ EXCEPT !.pc = "create"]]
            /\ create_count' = Counted(create_count, sessions[s].prompt)
    /\ UNCHANGED << azure_cache, openai_cache, post_count, cache_writes >>
    /\ OvFrame

\* lines 120-128: create returns or raises; the pair is written to the cache
OvCreateCompletes(s, o) ==
    /\ sessions[s].pc = "create"
    /\ LET r == generate_description_with_openai(openai_client, o)
       IN  /\ sessions' = [sessions EXCEPT ![s] =
                 [@ EXCEPT !.pc = "done", !.note = r, !.note_via = "call"]]
           /\ openai_cache' = Store(openai_cache, sessions[s].prompt, r)
           /\ cache_writes' = Counted(cache_writes, <<"openai", sessions[s].prompt>>)
    /\ UNCHANGED << azure_cache, post_count, create_count >>
    /\ OvFrame

OvNext ==
    \E s \in Sessions :
        \/ \E w \in WineSamples : OvPress(s, w)
        \/ OvFetchLookup(s)
        \/ OvFetchAcquire(s)
        \/ \E o \in OvPostOutcomes : OvPostCompletes(s, o)
        \/ OvInterpret(s)
        \/ OvGenerateLookup(s)
        \/ OvGenerateAcquire(s)
        \/ \E o \in OvCreateOutcomes : OvCreateCompletes(s, o)

SpecOverlap == OvInit /\ [][OvNext]_vars

(***************************************************************************)
(* Vocabulary of the properties.                                           *)
(***************************************************************************)
StartsWith(msg, prefix) == Len(msg) >= Len(prefix) /\ SubSeq(msg, 1, Len(prefix)) = prefix
Contains(msg, part) ==
    \E i \in 1..(Len(msg) - Len(part) + 1) : SubSeq(msg, i, i + Len(part) - 1) = part

\* a JSON number: what the specification calls numeric (integer or floating-point)
IsJsonNumber(v) == v.t \in {"int", "float"}

Is2xx(status) == 200 <= status /\ status <= 299
Is4xx5xx(status) == 400 <= status /\ status <= 599

IsUi(e) == e.kind \in {"write", "error", "warning", "success", "markdown"}
IsError(e) == e.kind = "error"
IsWarning(e) == e.kind = "warning"
IsSuccess(e) == e.kind = "success"
IsMessage(e) == e.kind \in {"error", "warning", "success"}
IsNarrativeCall(e) == e.kind = "chat.completions.create"
IsPredictionCall(e) == e.kind = "requests.post"
\* everything display_results has put on the page in this run, in order
Shown == SelectSeq(trace, IsUi)
Errors == SelectSeq(trace, IsError)
Warnings == SelectSeq(trace, IsWarning)
Successes == SelectSeq(trace, IsSuccess)
Messages == SelectSeq(trace, IsMessage)
NarrativeCalls == SelectSeq(trace, IsNarrativeCall)
PredictionCalls == SelectSeq(trace, IsPredictionCall)

IsSuccessMessage(e) == e.kind = "success" /\ StartsWith(e.text, MsgScore)
IsEmptyListWarning(e) == e.kind = "warning" /\ e.text = MsgEmptyList
IsNotANumberWarning(e) == e.kind = "warning" /\ StartsWith(e.text, MsgNotANumber)
IsUnexpectedWarning(e) == e.kind = "warning" /\ StartsWith(e.text, MsgUnexpected)
IsClassMessage(e) ==
    IsSuccessMessage(e) \/ IsEmptyListWarning(e) \/ IsNotANumberWarning(e) \/ IsUnexpectedWarning(e)
ClassMessages == SelectSeq(trace, IsClassMessage)

RawInputEcho == Ev("write", MsgRawInput, azure_payload)
RawResponseEcho == Ev("write", MsgRawResponse, pred.result)
CannotGenerate == Ev("warning", MsgCannotGenerate, PyNone)

\* lines 141-177 have run in this script run
Interpreted == pc \in {"create", "generated", "done"}
\* fetch_prediction_from_azure has returned in this script run
Fetched == pc \in {"fetched", "create", "generated", "done"}
\* requests.post was called in this run and answered with a 2xx status and a JSON body
Answered2xx == last_post.kind = "response" /\ Is2xx(last_post.status) /\ last_post.jsonOk

(***************************************************************************)
(* C1: for every JSON value a 2xx prediction response decodes to,          *)
(* display_results emits exactly one of the success message, the           *)
(* empty-list warning, the not-a-number warning and the unexpected-format  *)
(* warning.  As stated this fails for the body null.                       *)
(***************************************************************************)
C1_ExactlyOneClassification ==
    (Interpreted /\ Answered2xx) => Len(ClassMessages) = 1

\* C1 as amended: for every JSON value other than null exactly one of the four messages
\* is emitted; for null none of them is, and the only message is the error of line 146.
C1_ExactlyOneClassificationUnlessNull ==
    (Interpreted /\ Answered2xx) =>
        IF last_post.json = JNull
        THEN /\ Len(ClassMessages) = 0
             /\ Shown = << RawInputEcho, Ev("error", MsgResultIsNone, PyNone) >>
        ELSE Len(ClassMessages) = 1

C1_Witness ==
    /\ pc = "done"
    /\ Answered2xx
    /\ last_post.json = JList(<<JStr("high")>>)
    /\ Len(ClassMessages) = 1

(***************************************************************************)
(* C2: the narrative call is issued only after the prediction call has     *)
(* returned, and only if a numeric score was obtained: never after an      *)
(* error, an empty list, a non-numeric first element or a non-sequence.    *)
(***************************************************************************)
C2_NarrativeOnlyAfterNumericScore ==
    (NarrativeCalls # <<>>) =>
        /\ Fetched
        /\ \A i, j \in DOMAIN trace :
              (IsPredictionCall(trace[i]) /\ IsNarrativeCall(trace[j])) => i < j
        /\ ~Truthy(pred.error)
        /\ IsList(pred.result)
        /\ Len(pred.result.items) > 0
        /\ IsJsonNumber(pred.result.items[1])

(***************************************************************************)
(* C3: when the endpoint answers with a 4xx/5xx status s and body b,       *)
(* fetch_prediction_from_azure returns (None, "Azure ML call failed (s):   *)
(* b"), the only visible output of display_results is one error call with  *)
(* exactly that text after the cross mark, and no narrative call is made.  *)
(* As stated this fails: the raw input is echoed first (line 136).         *)
(***************************************************************************)
AzureFailedText ==
    "Azure ML call failed (" \o ToString(last_post.status) \o "): " \o last_post.text
Answered4xx5xx == last_post.kind = "response" /\ Is4xx5xx(last_post.status)

C3_OnlyOutputIsTheError ==
    (Fetched /\ Answered4xx5xx) =>
        /\ pred = Returned(PyNone, SomeStr(AzureFailedText))
        /\ pc = "done" =>
              /\ Shown = << Ev("error", "[x] " \o AzureFailedText, PyNone) >>
              /\ NarrativeCalls = <<>>

\* C3 as amended: after the echo of the raw input, the only output is that one error call.
C3_OnlyOutputAfterEchoIsTheError ==
    (Fetched /\ Answered4xx5xx) =>
        /\ pred = Returned(PyNone, SomeStr(AzureFailedText))
        /\ pc # "fetched" =>
              /\ pc = "done"
              /\ Shown = << RawInputEcho, Ev("error", "[x] " \o AzureFailedText, PyNone) >>
              /\ NarrativeCalls = <<>>

C3_Witness ==
    /\ pc = "done"
    /\ last_post = Response(500, "Internal Server Error", FALSE, JNull, MsgDecode)
    /\ Shown[Len(Shown)] =
          Ev("error", "[x] Azure ML call failed (500): Internal Server Error", PyNone)

(***************************************************************************)
(* C4: every response whose status is not 2xx, 1xx and 3xx included, is a  *)
(* failure: no result, and an error message containing the body text; a    *)
(* result is returned without error only for 2xx.  As stated this fails    *)
(* for 1xx and 3xx: raise_for_status raises for 4xx and 5xx only.          *)
(***************************************************************************)
C4_Non2xxIsFailure ==
    (Fetched /\ last_post.kind = "response") =>
        /\ ~Is2xx(last_post.status) =>
              /\ pred.result = PyNone
              /\ Truthy(pred.error)
              /\ Contains(pred.error.s, last_post.text)
        /\ pred.error.none => Is2xx(last_post.status)

\* C4 as amended: every response whose status is 4xx or 5xx is a failure with no result
\* and an error message containing the body text; a result is returned without error
\* only for a status that is not 4xx or 5xx.
C4_4xx5xxIsFailure ==
    (Fetched /\ last_post.kind = "response") =>
        /\ Is4xx5xx(last_post.status) =>
              /\ pred.result = PyNone
              /\ Truthy(pred.error)
              /\ Contains(pred.error.s, last_post.text)
        /\ pred.error.none => ~Is4xx5xx(last_post.status)

C4_Witness ==
    /\ pc = "done"
    /\ last_post.kind = "response"
    /\ last_post.status = 404
    /\ last_post.text = "[7.5]"
    /\ pred.error.s = "Azure ML call failed (404): [7.5]"

(***************************************************************************)
(* C5: when requests.post raises any exception, or a 2xx body cannot be    *)
(* decoded as JSON, fetch_prediction_from_azure returns (None, "Error      *)
(* calling Azure ML: <exception text>") and display_results emits exactly  *)
(* one error message containing that text, then stops without success      *)
(* message, warning or narrative call.                                     *)
(***************************************************************************)
TransportFailure ==
    \/ last_post.kind = "raise"
    \/ last_post.kind = "response" /\ Is2xx(last_post.status) /\ ~last_post.jsonOk

C5_TransportFailureIsReported ==
    (TransportFailure /\ pc # "post") =>
        /\ Fetched
        /\ pred = Returned(PyNone, SomeStr("Error calling Azure ML: " \o last_post.msg))
        /\ pc # "fetched" =>
              /\ pc = "done"
              /\ Len(Errors) = 1
              /\ Contains(Errors[1].text, last_post.msg)
              /\ Successes = <<>>
              /\ Warnings = <<>>
              /\ NarrativeCalls = <<>>

(***************************************************************************)
(* C6: no exception crosses a client boundary: whatever the services do    *)
(* (any status, body or exception, with or without an attached response),  *)
(* both clients return a pair and display_results ends with a message.     *)
(***************************************************************************)
C6_NoExceptionEscapes ==
    /\ pc # "raised"
    /\ ~pred.raised
    /\ ~note.raised
    /\ pc = "done" => Messages # <<>> \/ SelectSeq(trace, LAMBDA e : e.kind = "markdown") # <<>>

(***************************************************************************)
(* C7: when the 2xx response is a non-empty list whose first element is    *)
(* not an integer or floating-point number (null, a string, a boolean, a   *)
(* list, a mapping), display_results emits the not-a-number warning        *)
(* carrying the value, then the cannot-generate warning, no success        *)
(* message and no narrative call.                                          *)
(***************************************************************************)
NonNumericFirst(v) == IsList(v) /\ Len(v.items) > 0 /\ ~IsJsonNumber(v.items[1])

C7_NonNumericFirstElementGivesNoScore ==
    (Interpreted /\ Answered2xx /\ NonNumericFirst(last_post.json)) =>
        /\ pc = "done"
        /\ Len(Messages) = 2
        /\ IsNotANumberWarning(Messages[1])
        /\ Messages[2] = CannotGenerate
        /\ NarrativeCalls = <<>>

(***************************************************************************)
(* C8: when the endpoint answers 200 with body [], display_results emits   *)
(* exactly two warnings, the empty-list warning and then the               *)
(* cannot-determine-quality warning, no success or error message, and      *)
(* issues no narrative call.                                               *)
(***************************************************************************)
Answered200EmptyList ==
    last_post.kind = "response" /\ last_post.status = 200 /\ last_post.text = "[]"

C8_EmptyListGivesTwoWarnings ==
    (Interpreted /\ Answered200EmptyList) =>
        /\ pc = "done"
        /\ Warnings = << Ev("warning", MsgEmptyList, PyNone), CannotGenerate >>
        /\ Successes = <<>>
        /\ Errors = <<>>
        /\ NarrativeCalls = <<>>

C8_Witness ==
    /\ pc = "done"
    /\ Answered200EmptyList
    /\ last_post.jsonOk
    /\ Len(Warnings) = 2

(***************************************************************************)
(* C9: when the 2xx response decodes to a value that is not a sequence (a  *)
(* mapping, a string, a number, a boolean or null), display_results emits  *)
(* the unexpected-format warning carrying the raw value, then the          *)
(* cannot-generate warning, and issues no narrative call.  As stated this  *)
(* fails for null.                                                         *)
(***************************************************************************)
\* the texts of str(value) for the sample values that are not lists
RawValueText(v) ==
    CASE v = JDict(<<"not">>, <<JStr("a list")>>) -> "{'not': 'a list'}"
      [] v = JStr("notalist") -> "notalist"
      [] v = JFloat(75) -> "7.5"
      [] v = JInt(7) -> "7"
      [] v = JBool(FALSE) -> "False"
      [] v = JNull -> "None"

NumericFirst(v) == IsList(v) /\ Len(v.items) > 0 /\ IsJsonNumber(v.items[1])
\* the score of the sample lists, to two decimals
ScoreText(v) ==
    CASE v = JList(<<JFloat(75)>>) -> "7.50"
      [] v = JList(<<JInt(7)>>) -> "7.00"
      [] v = JList(<<JFloat(62), JStr("x")>>) -> "6.20"

C10_ScoreThenHeadingThenNote ==
    (/\ pc = "done"
     /\ Answered2xx
     /\ NumericFirst(last_post.json)
     /\ note.error.none
     /\ Truthy(note.result)) =>
        /\ Shown = << RawInputEcho,
                      RawResponseEcho,
                      Ev("success", MsgScore \o ScoreText(last_post.json), PyNone),
                      Ev("markdown", MsgHeading, PyNone),
                      Ev("write", note.result.s, PyNone) >>
        /\ Len(Successes) = 1
        /\ Errors = <<>>
        /\ Warnings = <<>>

C10_Witness ==
    /\ pc = "done"
    /\ Answered2xx
    /\ last_post.json = JList(<<JFloat(62), JStr("x")>>)
    /\ Truthy(note.result)
    /\ Len(Shown) = 5


(***************************************************************************)
(* C11: when a numeric score was obtained and the generation call fails,   *)
(* the success message with the score is on the page before the generation *)
(* call is issued and stays there; it is followed by exactly one error     *)
(* "[!] OpenAI Error: Error calling OpenAI: <exception text>", by no       *)
(* warning and by no tasting note.                                         *)
(***************************************************************************)
\* chat.completions.create was called in this run and line 126 raised: the call itself
\* raised, or there was no first choice, or its content was None
CreateFailed ==
    \/ last_create.kind = "raise"
    \/ /\ last_create.kind = "response"
       /\ (last_create.choices = <<>> \/ last_create.choices[1].none)
\* str(e) of the exception line 127 caught
CreateFailureText ==
    IF last_create.kind = "raise" THEN last_create.msg
    ELSE IF last_create.choices = <<>> THEN "list index out of range"
    ELSE "'NoneType' object has no attribute 'strip'"
SuccessBeforeCreate ==
    \A j \in 1..Len(trace) :
        IsNarrativeCall(trace[j]) => \E i \in 1..(j - 1) : IsSuccessMessage(trace[i])

C11_SuccessThenOneOpenAIError ==
    /\ SuccessBeforeCreate
    /\ (CreateFailed /\ pc \in {"generated", "done"}) =>
            /\ Len(Successes) = 1
            /\ IsSuccessMessage(Successes[1])
    /\ (CreateFailed /\ pc = "done") =>
            /\ Len(Messages) = 2
            /\ IsSuccessMessage(Messages[1])
            /\ Messages[2] = Ev("error",
                                "[!] OpenAI Error: Error calling OpenAI: " \o CreateFailureText,
                                PyNone)
            /\ trace[Len(trace)] = Messages[2]
            /\ Warnings = <<>>
            /\ \A i \in 1..Len(trace) : trace[i].kind # "markdown"
            /\ Len(Shown) = 4

C11_Witness ==
    /\ pc = "done"
    /\ last_create.kind = "raise"
    /\ last_create.msg = "GPT error!"
    /\ Len(Errors) = 1
    /\ Errors[1].text = "[!] OpenAI Error: Error calling OpenAI: GPT error!"
    /\ Len(Successes) = 1


(***************************************************************************)
(* C12: on any failure of the narrative step, the unavailable client       *)
(* included, generate_description_with_openai returns no text and an error *)
(* of the form "Error calling OpenAI: <exception text>".  As stated this   *)
(* fails for the unavailable client, which has a message of its own.       *)
(***************************************************************************)
ClientUnavailable == openai_client = "none"

PayloadBuilt == azure_payload # PyNone
Columns(payload) == Get(payload, "columns").items
Rows(payload) == Get(payload, "data").items

C13_PayloadShape ==
    PayloadBuilt =>
        /\ Len(Columns(azure_payload)) = 13
        /\ Len(Rows(azure_payload)) = 1
        /\ Len(Rows(azure_payload)[1].items) = 13

C13_NextCallAgrees ==
    (PayloadBuilt /\ PayloadBuilt' /\ runs' # runs) =>
        /\ Columns(azure_payload') = Columns(azure_payload)
        /\ (widgets' = widgets) => (azure_payload' = azure_payload)

C13_PayloadShapeAndStability == []C13_PayloadShape /\ [][C13_NextCallAgrees]_vars

\* the second press with the values of the first: the body is found in the cache
C13_Witness ==
    /\ runs = 2
    /\ pc = "fetched"
    /\ PayloadBuilt
    /\ PredictionCalls = <<>>
    /\ Len(Rows(azure_payload)[1].items) = 13
    /\ Len(Columns(azure_payload)) = 13


(***************************************************************************)
(* C14: in every payload the single data row is aligned with the columns:  *)
(* for each index, the value in the row is the argument passed for the     *)
(* field the column at that index names, the fields being in the order     *)
(* fixed acidity, volatile acidity, citric acid, residual sugar,           *)
(* chlorides, free sulfur dioxide, total sulfur dioxide, density, pH,      *)
(* sulphates, alcohol, color, qual_bool.                                   *)
(***************************************************************************)
\* the field the i-th widget of lines 36-48 is for, which is the order of the claim
FieldOrder ==
    << "fixed acidity", "volatile acidity", "citric acid", "residual sugar", "chlorides",
       "free sulfur dioxide", "total sulfur dioxide", "density", "pH", "sulphates", "alcohol",
       "color", "qual_bool" >>

C14_RowAlignedWithColumns ==
    PayloadBuilt =>
        /\ Len(widgets) = 13
        /\ Columns(azure_payload) = [i \in 1..13 |-> JStr(FieldOrder[i])]
        /\ Rows(azure_payload)[1].items = widgets

C14_Witness ==
    /\ PayloadBuilt
    /\ Columns(azure_payload)[9] = JStr("pH")
    /\ Rows(azure_payload)[1].items[9] = JFloat(33)
    /\ Columns(azure_payload)[10] = JStr("sulphates")
    /\ Rows(azure_payload)[1].items[10] = JFloat(6)
    /\ Columns(azure_payload)[12] = JStr("color")
    /\ Rows(azure_payload)[1].items[12] = JStr("white")


(***************************************************************************)
(* C15: the prediction call is memoized on the serialized request body:    *)
(* over any sequence of requests at most one POST is issued per distinct   *)
(* body, a request whose body equals an earlier one receives the earlier   *)
(* (result, error) pair, and requests with different bodies never share a  *)
(* cache entry.  The first part fails when the earlier call raised.        *)
(***************************************************************************)
C15_AtMostOnePostPerBody ==
    /\ \A body \in DOMAIN post_count : post_count[body] <= 1
    /\ Fetched =>
          /\ input_data_json \in DOMAIN azure_cache
          /\ pred = azure_cache[input_data_json]
    /\ \A body \in DOMAIN azure_cache : body \in DOMAIN post_count


(***************************************************************************)
(* C16: every prediction request issued by display_results is a single     *)
(* POST to the configured endpoint; its body is the serialization of       *)
(* {"input_data": payload} for the payload display_results was given, its  *)
(* Authorization header is "Bearer <configured token>" and its             *)
(* Content-Type header is application/json.                                *)
(***************************************************************************)
\* a request enters the trace in the step that leaves display_results waiting for it, and
\* from then on the trace keeps it
C16_OnePostWithBodyAndHeaders ==
    /\ Len(PredictionCalls) <= 1
    /\ (pc = "post") =>
          /\ Len(PredictionCalls) = 1
          /\ trace[Len(trace)] = PredictionCalls[1]
          /\ input_data_json = JsonDumps(JDict(<<"input_data">>, <<azure_payload>>))
          /\ StartsWith(input_data_json, "{\"input_data\": {\"columns\": [\"fixed acidity\", ")
    /\ \A i \in 1..Len(PredictionCalls) :
          LET req == PredictionCalls[i]
          IN  /\ req.text = input_data_json
              /\ Get(req.obj, "url") = JStr(env.AZURE_ENDPOINT_URI.s)
              /\ Get(req.obj, "Authorization") = JStr("Bearer " \o env.AZURE_API_KEY.s)
              /\ Get(req.obj, "Content-Type") = JStr("application/json")
              /\ DOMAIN req.obj.keys = 1..3

C16_Witness ==
    /\ pc = "post"
    /\ Len(PredictionCalls) = 1
    /\ Get(PredictionCalls[1].obj, "url") = JStr("https://mock-azure-endpoint.com")
    /\ Get(PredictionCalls[1].obj, "Authorization") = JStr("Bearer mock-azure-key")
    /\ Contains(PredictionCalls[1].text, "\"data\": [[7.4, 0.7, 0.0, 1.9, ")


(***************************************************************************)
(* C17: if any of the three configuration inputs (prediction endpoint URL, *)
(* prediction bearer token, generation API key) is absent at startup, the  *)
(* application reports one configuration error and halts: no OpenAI client *)
(* is created, no form is processed, and no prediction or narrative        *)
(* request is ever issued in that run.                                     *)
(***************************************************************************)
\* not set, or set to the empty string, which os.getenv returns as ""
Absent(o) == o.none \/ o.s = ""
ConfigMissing ==
    Absent(env.AZURE_ENDPOINT_URI) \/ Absent(env.AZURE_API_KEY) \/ Absent(env.OPENAI_API_KEY)

C17_MissingConfigHalts ==
    ConfigMissing =>
        /\ pc \in {"idle", "stopped"}
        /\ (pc = "idle") => (trace = <<>>)
        /\ (pc = "stopped") =>
              trace = << Ev("error",
                            "[!] Missing required environment variables. Please set AZURE_ENDPOINT_URI, AZURE_API_KEY, and OPENAI_API_KEY.",
                            PyNone) >>
        /\ openai_client = "none"
        /\ widgets = <<>>
        /\ azure_payload = PyNone
        /\ prompt_parameters = PyNone
        /\ post_count = NoCalls
        /\ create_count = NoCalls
        /\ last_post = NoOutcome
        /\ last_create = NoCreate
        /\ azure_cache = EmptyCache
        /\ openai_cache = EmptyCache

C17_Witness ==
    /\ env.OPENAI_API_KEY.none
    /\ pc = "stopped"
    /\ runs = 2
    /\ Len(trace) = 1
    /\ trace[1].kind = "error"
    /\ openai_client = "none"


(***************************************************************************)
(* C18: there is no retry: within one run of display_results the           *)
(* prediction endpoint is called at most once and the generation endpoint  *)
(* at most once, and a failed attempt of either call is terminal for that  *)
(* request.                                                                *)
(***************************************************************************)
\* the prediction attempt of this run failed: it raised, or came back with an error
PredictionFailed == pc = "raised" \/ (Fetched /\ Truthy(pred.error))
\* the generation attempt of this run failed
GenerationFailed == pc \in {"generated", "done"} /\ Truthy(note.error)

C18_NoRetry ==
    /\ Len(PredictionCalls) <= 1
    /\ Len(NarrativeCalls) <= 1
    /\ PredictionFailed =>
          /\ pc \in {"raised", "fetched", "done"}
          /\ NarrativeCalls = <<>>
          /\ Successes = <<>>
    /\ (PredictionFailed /\ last_post # NoOutcome) => Len(PredictionCalls) = 1
    /\ (GenerationFailed /\ last_create # NoCreate) => Len(NarrativeCalls) = 1

C18_Witness ==
    /\ pc = "done"
    /\ GenerationFailed
    /\ last_create.kind = "raise"
    /\ Len(PredictionCalls) = 1
    /\ Len(NarrativeCalls) = 1


(***************************************************************************)
(* C19: when the generation call succeeds, generate_description_with_openai*)
(* returns (text, no error), where text is the message content of the      *)
(* first generated choice with leading and trailing whitespace removed;    *)
(* further choices do not affect the result.                               *)
(***************************************************************************)
\* chat.completions.create was called in this run and gave a first choice with a content
CreateSucceeded ==
    /\ pc \in {"generated", "done"}
    /\ last_create.kind = "response"
    /\ last_create.choices # <<>>
    /\ ~last_create.choices[1].none
\* r is chars without a whitespace prefix and a whitespace suffix, and r neither begins
\* nor ends with whitespace
IsTrimOf(r, chars) ==
    \E i \in 0..Len(chars), j \in 0..Len(chars) :
        /\ i + j <= Len(chars)
        /\ \A k \in 1..i : chars[k] \in {" ", "\n", "\t"}
        /\ \A k \in (Len(chars) - j + 1)..Len(chars) : chars[k] \in {" ", "\n", "\t"}
        /\ r = SubSeq(chars, i + 1, Len(chars) - j)
        /\ r # <<>> => (r[1] \notin {" ", "\n", "\t"} /\ r[Len(r)] \notin {" ", "\n", "\t"})

C19_FirstChoiceStripped ==
    CreateSucceeded =>
        /\ ~note.raised
        /\ note.error.none
        /\ ~note.result.none
        /\ \E r \in CharSeqs :
              /\ IsTrimOf(r, last_create.choices[1].chars)
              /\ note.result.s = Join(r)

C19_Witness ==
    /\ CreateSucceeded
    /\ last_create.choices = << [none |-> FALSE, chars |-> <<"a", " ">>], OtherChoice >>
    /\ note.result = SomeStr("a")
    /\ note.error.none


(***************************************************************************)
(* C20: when a numeric score was obtained and the generation call returns  *)
(* no error but a note that is empty after trimming, display_results emits *)
(* the success message followed by exactly one warning, "GPT could not     *)
(* generate a tasting note (no specific error provided).", and no error    *)
(* and no tasting-note heading; and whenever a score was obtained exactly  *)
(* one of the three note outcomes (generated note, failed note, no note)   *)
(* is shown.                                                               *)
(***************************************************************************)
\* the run ended after a score was shown
ScoreObtained == pc = "done" /\ Successes # <<>>
\* generate_description_with_openai gave ("", None)
EmptyNote == note = Returned(SomeStr(""), NoStr)
NoteShown ==
    \E i \in 1..(Len(trace) - 1) :
        /\ trace[i] = Ev("markdown", "### [wine] GPT-Generated Tasting Note", PyNone)
        /\ trace[i + 1].kind = "write"
OpenAIErrorShown ==
    \E i \in 1..Len(trace) :
        trace[i].kind = "error" /\ StartsWith(trace[i].text, "[!] OpenAI Error: ")
NoNoteWarning ==
    Ev("warning", "[!] GPT could not generate a tasting note (no specific error provided).", PyNone)
NoNoteWarningShown == \E i \in 1..Len(trace) : trace[i] = NoNoteWarning
Count(b) == IF b THEN 1 ELSE 0

C20_EmptyNoteGivesOneWarning ==
    /\ (ScoreObtained /\ EmptyNote) =>
          /\ Len(Messages) = 2
          /\ IsSuccessMessage(Messages[1])
          /\ Messages[2] = NoNoteWarning
          /\ trace[Len(trace)] = NoNoteWarning
          /\ Errors = <<>>
          /\ \A i \in 1..Len(trace) : trace[i].kind # "markdown"
          /\ Len(Shown) = 4
    /\ ScoreObtained =>
          Count(NoteShown) + Count(OpenAIErrorShown) + Count(NoNoteWarningShown) = 1

C20_Witness ==
    /\ ScoreObtained
    /\ EmptyNote
    /\ last_create.kind = "response"
    /\ last_create.choices = << [none |-> FALSE, chars |-> <<" ", " ">>] >>
    /\ Warnings = << NoNoteWarning >>


(***************************************************************************)
(* C21: display_results subsumes the earlier revision of the script: for   *)
(* every prediction outcome and every generation outcome, if the earlier   *)
(* revision shows a predicted score and attempts a narrative call then so  *)
(* does the final revision, and if the earlier revision reports a failure  *)
(* and attempts no narrative call then so does the final revision.  As     *)
(* stated the second part fails for a status the earlier revision rejects  *)
(* and raise_for_status lets pass.                                         *)
(***************************************************************************)
Has(events, kind) == \E i \in 1..Len(events) : events[i].kind = kind
ShowsScore(events) == Has(events, "success")
AttemptsNarrative(events) == Has(events, "chat.completions.create")
ReportsFailure(events) ==
    ~Has(events, "success") /\ (Has(events, "error") \/ Has(events, "warning"))
\* the run of display_results is over and requests.post was called in it
PostedAndOver == pc \in {"done", "raised"} /\ last_post # NoOutcome
\* the generation outcomes to compare on: the one of this run if create was called,
\* every one if it was not
GenerationOutcomes == IF last_create # NoCreate THEN {last_create} ELSE CreateOutcomes
\* display_results called generate_description_with_openai in this run
FinalAttemptsNarrative == AttemptsNarrative(trace) \/ note # NoNote

SameVerdict(o) == o.kind = "raise" \/ o.status = 200 \/ (400 <= o.status /\ o.status <= 599)

C22_WrittenOnceAndRead ==
    /\ \A k \in DOMAIN cache_writes : cache_writes[k] <= 1
    /\ \A body \in DOMAIN azure_cache : cache_writes[<<"azure", body>>] = 1
    /\ \A prompt \in DOMAIN openai_cache : cache_writes[<<"openai", prompt>>] = 1
    /\ \A s \in DOMAIN sessions :
          /\ sessions[s].pred_via # "" =>
                /\ sessions[s].body \in DOMAIN azure_cache
                /\ sessions[s].pred = azure_cache[sessions[s].body]
          /\ sessions[s].note_via # "" =>
                /\ sessions[s].prompt \in DOMAIN openai_cache
                /\ sessions[s].note = openai_cache[sessions[s].prompt]

C22_NeverOverwritten ==
    /\ \A body \in DOMAIN azure_cache :
          body \in DOMAIN azure_cache' /\ azure_cache'[body] = azure_cache[body]
    /\ \A prompt \in DOMAIN openai_cache :
          prompt \in DOMAIN openai_cache' /\ openai_cache'[prompt] = openai_cache[prompt]

InRun == pc \in {"post", "fetched", "create", "generated"}
\* display_results has returned and has put a success, an error or a warning on the page
CompletedWithOutcome == pc = "done" /\ Messages # <<>>

C23_EveryRunCompletesWithOutcome ==
    /\ [](pc \in {"done", "raised"} => CompletedWithOutcome)
    /\ (InRun ~> CompletedWithOutcome)


(***************************************************************************)
(* C24: failures are memoized like successes: once a call for a key (the   *)
(* serialized body, or the prompt) has returned an error pair, every later *)
(* request with the same key shows the same error without a new external   *)
(* call, whatever the service would answer by then.                        *)
(***************************************************************************)
\* the pair stored for the body, or for the prompt, of this run carries an error
PredictionErrorStored ==
    input_data_json \in DOMAIN azure_cache /\ Truthy(azure_cache[input_data_json].error)
NarrativeErrorStored ==
    prompt_text \in DOMAIN openai_cache /\ Truthy(openai_cache[prompt_text].error)

C24_ErrorPairIsStoredAndShown ==
    /\ (Fetched /\ Truthy(pred.error)) =>
          /\ PredictionErrorStored
          /\ azure_cache[input_data_json] = pred
    /\ (pc \in {"generated", "done"} /\ Truthy(note.error)) =>
          /\ NarrativeErrorStored
          /\ openai_cache[prompt_text] = note
    /\ (Fetched /\ PredictionErrorStored) =>
          /\ pred = azure_cache[input_data_json]
          /\ pc = "done" =>
                Messages = << Ev("error", "[x] " \o azure_cache[input_data_json].error.s, PyNone) >>
    /\ (pc = "done" /\ NarrativeErrorStored) =>
          /\ note = openai_cache[prompt_text]
          /\ Errors = << Ev("error",
                            "[!] OpenAI Error: " \o openai_cache[prompt_text].error.s, PyNone) >>

\* a stored error pair stays, and no call is made for its key any more
C24_NoCallForStoredError ==
    /\ \A body \in DOMAIN azure_cache :
          Truthy(azure_cache[body].error) =>
              /\ body \in DOMAIN azure_cache' /\ azure_cache'[body] = azure_cache[body]
              /\ post_count'[body] = post_count[body]
    /\ \A prompt \in DOMAIN openai_cache :
          Truthy(openai_cache[prompt].error) =>
              /\ prompt \in DOMAIN openai_cache' /\ openai_cache'[prompt] = openai_cache[prompt]
              /\ create_count'[prompt] = create_count[prompt]

C24_FailuresAreMemoized == []C24_ErrorPairIsStoredAndShown /\ [][C24_NoCallForStoredError]_vars

\* the second press with the values of the first, whose call had returned an error pair
C24_Witness ==
    /\ runs = 2
    /\ pc = "done"
    /\ PredictionErrorStored
    /\ PredictionCalls = <<>>
    /\ post_count[input_data_json] = 1
    /\ Len(Errors) = 1
    /\ Errors[1].text = "[x] Azure ML call failed (500): Internal Server Error"


(***************************************************************************)
(* C25: in every run of display_results the success message and the        *)
(* cannot-determine-quality warning are never both emitted; neither of     *)
(* them is emitted in a run that emitted a prediction error message; and a *)
(* narrative outcome message (tasting note, OpenAI error or no-note        *)
(* warning) is emitted only in a run in which the success message was      *)
(* emitted earlier.                                                        *)
(***************************************************************************)
SuccessAt(i) ==
    trace[i].kind = "success" /\ StartsWith(trace[i].text, "Predicted Wine Quality Score: ")
CannotDetermineAt(i) ==
    /\ trace[i].kind = "warning"
    /\ StartsWith(trace[i].text, "[!] Could not determine wine quality from Azure ML response.")
PredictionErrorAt(i) == trace[i].kind = "error" /\ StartsWith(trace[i].text, "[x] ")
NarrativeOutcomeAt(i) ==
    \/ trace[i] = Ev("markdown", "### [wine] GPT-Generated Tasting Note", PyNone)
    \/ trace[i].kind = "error" /\ StartsWith(trace[i].text, "[!] OpenAI Error: ")
    \/ trace[i] = NoNoteWarning
Positions == 1..Len(trace)

C25_MessagesExcludeEachOther ==
    /\ ~((\E i \in Positions : SuccessAt(i)) /\ (\E i \in Positions : CannotDetermineAt(i)))
    /\ (\E i \in Positions : PredictionErrorAt(i)) =>
          \A i \in Positions : ~SuccessAt(i) /\ ~CannotDetermineAt(i)
    /\ \A i \in Positions :
          NarrativeOutcomeAt(i) => \E j \in 1..(i - 1) : SuccessAt(j)

C25_Witness ==
    /\ pc = "done"
    /\ \E i \in Positions : CannotDetermineAt(i) /\ i = Len(trace)
    /\ \A i \in Positions : ~SuccessAt(i) /\ ~PredictionErrorAt(i) /\ ~NarrativeOutcomeAt(i)
    /\ last_post.json = JList(<<JStr("high")>>)


(***************************************************************************)
(* C26: no operation changes its inputs or the shared column schema:       *)
(* get_input_data_payload, fetch_prediction_from_azure and display_results *)
(* leave the module-level AZURE_ML_COLUMNS list, the azure_payload and the *)
(* prompt_parameters unchanged, so the columns list every payload shares   *)
(* by reference keeps its 13 names in the same order after any sequence of *)
(* requests.                                                               *)
(***************************************************************************)
\* the list has the 13 names, and the payload's "columns" is that list
C26_SchemaKept ==
    /\ ml_columns = FieldOrder
    /\ PayloadBuilt =>
          Columns(azure_payload) = [i \in 1..Len(ml_columns) |-> JStr(ml_columns[i])]

\* no step changes the list; within a run no step changes what display_results was given
C26_InputsKept ==
    /\ ml_columns' = ml_columns
    /\ (runs' = runs) =>
          /\ azure_payload' = azure_payload
          /\ prompt_parameters' = prompt_parameters
          /\ widgets' = widgets

C26_NothingChangesInputsOrSchema == []C26_SchemaKept /\ [][C26_InputsKept]_vars

C26_Witness ==
    /\ runs = 2
    /\ pc = "done"
    /\ PayloadBuilt
    /\ Len(ml_columns) = 13
    /\ ml_columns[13] = "qual_bool"
    /\ Columns(azure_payload)[13] = JStr("qual_bool")
    /\ DOMAIN azure_cache # {}

=============================================================================
